---- MODULE Spec2Model ----
(***************************************************************************)
(* Model of pybricksdev's hub communication engine                         *)
(* (src/pybricksdev/connections.py): the checksum-acknowledged block       *)
(* transfer of PybricksHub and PybricksPUPProtocol, the notification       *)
(* handlers, and the program state they keep.                              *)
(*                                                                         *)
(* asyncio runs one coroutine segment or one notification callback at a    *)
(* time, so every action below is one such segment: the code between two   *)
(* awaits that really suspend, or one whole callback.                      *)
(***************************************************************************)
EXTENDS Integers, Sequences, FiniteSets, TLC

VARIABLES
    cls,                 \* class of the session object
    hub_kind,            \* PybricksHub.hub_kind
    expected_checksum,   \* PybricksHub.expected_checksum (-1: not expecting)
    checksum_ready,      \* checksum_ready asyncio.Event (both classes)
    loading,             \* PybricksHub.loading
    program_running,     \* PybricksHub.program_running
    user_program_stopped,\* PybricksHub.user_program_stopped asyncio.Event
    buffered_stdout,     \* PybricksHub._buffered_stdout: io.BytesIO (bytes, position)
    state,               \* PybricksPUPProtocol.state
    checksum,            \* PybricksPUPProtocol.checksum (-1: None)
    char_buf,            \* CharacterGlue.char_buf
    log_file,            \* log_file: None, or the open file and its name
    output,              \* output: list of lines
    print_output,        \* print_output
    files,               \* file system: closed and open log files, name -> lines
    pc,                  \* position of the run coroutine
    mpy,                 \* run: the compiled payload
    ci,                  \* run: number of payload chunks handed to send so far
    data,                \* send_block / send_message: the block being sent
    off,                 \* send_block: offset of the next write into data
    result,              \* how the last run ended
    nusq,                \* NUS notifications in flight from the device, in order
    terminal,            \* bytes written to sys.stdout
    nRuns, nOut, nStatus,\* counters of runs, device output and status notifications
    blk,                 \* history: number, within the run, of the block being sent
    wire,                \* history: writes of this run that reached the device
    sent,                \* history: blocks handed to send in this run
    okBlks,              \* history: blocks of this run whose send returned without error
    sendres,             \* history: how the send of block blk ended
    matchedBlks,         \* history: blocks for which a byte equal to XOR(data) was taken
    badBlks,             \* history: blocks for which a byte differing from XOR(data) was taken
    staleBlks,           \* history: blocks for which the ack of another block was taken
    released,            \* history: blocks whose ready signal was set by a handler
    issuedArmed,         \* history: the slot held XOR(data) when the first write was issued
    nDisarm,             \* history: times the slot went from armed to disarmed in this run
    rx,                  \* history: program output bytes the handler buffered or wrote, in order
    rxLoading,           \* history: those of rx that were buffered
    wroteLoading,        \* history: the terminal was written while loading
    suppressed,          \* history: what the last status report said, if loading hid it
    wait,                \* run: the wait argument
    isatty,              \* os.isatty(sys.stdin.fileno())
    tty,                 \* the terminal settings of stdin
    save_mode,           \* run: the settings saved by tcgetattr
    pipe,                \* position of the pipe_stdin task
    waiter,              \* position of the wait_for_program_end task
    pipe_cancelled,      \* history: the await at which pipe_stdin was cancelled, or "no"
    nStdin,              \* counter of chunks read from stdin
    py_path,             \* run: the py_path argument
    script_dir,          \* PybricksHub.script_dir (unset until a run)
    dirs,                \* file system: the directories that exist
    handles,             \* file system: the files this process holds open
    abi,                 \* the abi argument compile_file is given, if any
    compiler_invoked,    \* history: mpy_cross_compile was called in this run
    eol_set,             \* CharacterGlue: an EOL marker is configured
    stream,              \* history: bytes appended to char_buf, in order
    handed,              \* history: lines handed to line_handler, in order
    raised,              \* history: the last call of a line handler raised
    nFeed,               \* counter of line data sent by the device
    dev_program,         \* environment: the program PybricksPUPProtocol.run transferred
    seen_running         \* history: a status report of this run said "running"

vars == <<cls, dev_program, hub_kind, seen_running, expected_checksum, checksum_ready, loading,
          program_running, user_program_stopped, buffered_stdout, state,
          checksum, char_buf, log_file, output, print_output, files, pc, mpy,
          ci, data, off, result, nusq, terminal, nRuns, nOut,
          nStatus, blk, wire, sent, okBlks, sendres, matchedBlks, badBlks, staleBlks,
          released, issuedArmed, nDisarm, rx, rxLoading, wroteLoading,
          suppressed,
          wait, isatty, tty, save_mode, pipe, waiter, pipe_cancelled, nStdin,
          py_path, script_dir, dirs, handles, abi, compiler_invoked, eol_set, stream, handed, raised, nFeed>>

hubFields == <<expected_checksum, loading, program_running,
               user_program_stopped, buffered_stdout>>
pupFields == <<state, checksum, char_buf, log_file, output, files>>
sessVars == <<wait, isatty, tty, save_mode, pipe, waiter, pipe_cancelled, nStdin>>
pathVars == <<py_path, script_dir, dirs, handles>>
compVars == <<abi, compiler_invoked>>
lineVars == <<eol_set, stream, handed, raised, nFeed>>

----------------------------------------------------------------------------
(* Bounds of the model *)

MaxRuns == 2
MaxOut == 2
MaxStatus == 3
MaxQueue == 2

(* Program constants *)

ChunkSize == 100
BoostMTU == 20
MaxMessage == 100
STATUS_REPORT == 0
USER_PROGRAM_RUNNING_flag == 64

NoChecksum == 0 - 1

(* log_file is None *)
NoFile == [open |-> FALSE, name |-> <<>>]

(* b"\r\n", b"PB_OF", b"PB_EOF" *)
EOL == <<13, 10>>
PB_OF == <<80, 66, 95, 79, 70>>
PB_EOF == <<80, 66, 95, 69, 79, 70>>

----------------------------------------------------------------------------
(* Bytes *)

Min(a, b) == IF a < b THEN a ELSE b

RECURSIVE BitXor(_, _)
BitXor(a, b) ==
    IF a = 0 THEN b
    ELSE IF b = 0 THEN a
    ELSE ((a + b) % 2) + 2 * BitXor(a \div 2, b \div 2)

RECURSIVE BitAnd(_, _)
BitAnd(a, b) ==
    IF a = 0 \/ b = 0 THEN 0
    ELSE ((a % 2) * (b % 2)) + 2 * BitAnd(a \div 2, b \div 2)

(* XOR of the bytes d[lo..hi]; halving keeps the evaluation shallow, and   *)
(* XOR is associative, so the value is that of the left-to-right fold.     *)
RECURSIVE XorRange(_, _, _)
XorRange(d, lo, hi) ==
    IF lo > hi THEN 0
    ELSE IF lo = hi THEN d[lo]
    ELSE BitXor(XorRange(d, lo, (lo + hi) \div 2),
                XorRange(d, ((lo + hi) \div 2) + 1, hi))

(* tools.checksum.xor_bytes: the running XOR of the bytes, started at init *)
xor_bytes(d, init) == BitXor(init, XorRange(d, 1, Len(d)))

(* data[i:j] of Python, 0-based, j clipped to the length *)
Slice(d, i, j) == SubSeq(d, i + 1, Min(j, Len(d)))

(* n.to_bytes(4, byteorder="little") *)
to_bytes4(n) ==
    << n % 256, (n \div 256) % 256, (n \div 65536) % 256, (n \div 16777216) % 256 >>

(* range(0, n, step) as the sequence of its values *)
Range0(n, step) == [k \in 1..((n + step - 1) \div step) |-> (k - 1) * step]

----------------------------------------------------------------------------
(* Inputs: the payloads the compiler may return, and what the hub may send *)

Lengths == {0, 1, 101}
Payload(L) == [i \in 1..L |-> (7 * i + 3) % 256]
Payloads == {Payload(L) : L \in Lengths}

(* one run of every shape: no chunk, one short chunk, full chunks only,    *)
(* full chunks and a short one                                             *)
LongLengths == {0, 1, 99, 100, 101, 200, 250}
LongPayloads == {Payload(L) : L \in LongLengths}

ShortLengths == {0, 1}
ShortPayloads == {Payload(L) : L \in ShortLengths}

HubKinds == {"BOOST", "OTHER"}
Classes == {"PybricksHub", "PybricksPUPProtocol"}

(* the 4-byte flags of a status report: bit 6 is "user program running" *)
StatusFlags == {0, 1, 64, 65}
(* header byte of a notification of the Pybricks control characteristic *)
EventKinds == {0, 1}

----------------------------------------------------------------------------
(* io.BytesIO: write() stores at the position and advances it, read()      *)
(* returns what lies between the position and the end and advances it.     *)

BytesIO_new == [buf |-> <<>>, pos |-> 0]

BytesIO_write(b, d) ==
    [buf |-> SubSeq(b.buf, 1, b.pos) \o d
             \o SubSeq(b.buf, b.pos + Len(d) + 1, Len(b.buf)),
     pos |-> b.pos + Len(d)]

BytesIO_read(b) == SubSeq(b.buf, b.pos + 1, Len(b.buf))

BytesIO_after_read(b) == [b EXCEPT !.pos = Len(b.buf)]

----------------------------------------------------------------------------
(* PybricksHub.run, lines 822-824: the payload cut into chunks *)

(* chunking that forgets the short last chunk *)
ChunksFloor(m, n) == [k \in 1..(Len(m) \div n) |-> Slice(m, (k - 1) * n, k * n)]

Chunks(m, n) == [k \in 1..Len(Range0(Len(m), n)) |->
                    Slice(m, Range0(Len(m), n)[k], Range0(Len(m), n)[k] + n)]

(* a send_block that writes every block whole *)
unfragmented(kind, d) == << d >>

(* PybricksHub.send_block, lines 784-792: the writes one block is sent as *)
Fragments(kind, d) ==
    IF kind = "BOOST"
    THEN [k \in 1..Len(Range0(Len(d), BoostMTU)) |->
             Slice(d, Range0(Len(d), BoostMTU)[k], Range0(Len(d), BoostMTU)[k] + BoostMTU)]
    ELSE << d >>

(* What the device has received of block b, in order *)
RECURSIVE Received(_, _)
Received(w, b) ==
    IF w = <<>> THEN <<>>
    ELSE (IF Head(w).blk = b THEN Head(w).data ELSE <<>>) \o Received(Tail(w), b)

----------------------------------------------------------------------------
(* State after construction: PybricksHub.__init__ (lines 589-618) and      *)
(* PybricksPUPProtocol.__init__ (lines 130-137); nothing is in flight.     *)

(* termios settings of stdin, as far as lines 905-912 touch them *)
OrigMode == [echo |-> TRUE, icanon |-> TRUE, icrnl |-> TRUE, inlcr |-> FALSE,
             vintr |-> 3, vmin |-> 1, vtime |-> 0]

(* lines 903-912: the mode run installs, computed from the current one *)
raw_mode(m) == [m EXCEPT !.echo = FALSE, !.icanon = FALSE, !.icrnl = FALSE,
                         !.inlcr = TRUE, !.vintr = 24, !.vmin = 1, !.vtime = 0]

(* os.path.split and os.path.join on relative paths; 47 is "/" *)
LastSlash(p) ==
    LET at == {i \in 1..Len(p) : p[i] = 47}
    IN  IF at = {} THEN 0 ELSE CHOOSE i \in at : \A j \in at : j <= i

os_path_split(p) ==
    IF LastSlash(p) = 0 THEN [head |-> <<>>, tail |-> p]
    ELSE [head |-> SubSeq(p, 1, LastSlash(p) - 1),
          tail |-> SubSeq(p, LastSlash(p) + 1, Len(p))]

os_path_join(a, b) == IF a = <<>> THEN b ELSE a \o <<47>> \o b

(* the scripts a run is given: "p" in the working directory, and "s/p" *)
PyPaths == { <<112>>, <<115, 47, 112>> }

NoScriptDir == [set |-> FALSE, dir |-> <<>>]

AllClasses == {"CharacterGlue", "PybricksHub", "PybricksPUPProtocol"}

(* compile.py, compile_file (lines 30-66). Both run methods call           *)
(* compile_file(py_path) and give no abi, which the signature of line 30   *)
(* requires: NoAbi stands for that call. The other values are calls that   *)
(* give the ABI version.                                                   *)
NoAbi == 0 - 1
Abis == {NoAbi, 4, 5, 6}

(* a compile_file that does not look at the ABI version *)
abi_unchecked(a) == TRUE

(* line 51 *)
abi_checked(a) == a = 5

(* What the call raises ("no": it returns the payload) and whether         *)
(* mpy_cross_compile was called, given whether the script can be read and  *)
(* whether the compiler succeeds.                                          *)
compile_file(readable, a, compiler_ok) ==
    IF a = NoAbi THEN [raised |-> "TypeError", invoked |-> FALSE]
    ELSE IF ~readable THEN [raised |-> "OSError", invoked |-> FALSE]
    ELSE IF abi_checked(a)
    THEN [raised |-> IF compiler_ok THEN "no" ELSE "CalledProcessError",
          invoked |-> TRUE]
    ELSE [raised |-> "ValueError", invoked |-> FALSE]

(* The objects as their constructors leave them, with the arguments and    *)
(* the environment of the session: CharacterGlue.__init__ (lines 43-56),   *)
(* PybricksPUPProtocol.__init__ (130-137), PybricksHub.__init__ (589-618). *)
InitObject ==
    /\ cls \in AllClasses
    /\ dev_program = "none"
    /\ seen_running = FALSE
    /\ wait \in BOOLEAN
    /\ isatty \in BOOLEAN
    /\ py_path \in PyPaths
    /\ eol_set \in BOOLEAN
    /\ tty = OrigMode
    /\ save_mode = OrigMode
    /\ pipe = "none"
    /\ waiter = "none"
    /\ pipe_cancelled = "no"
    /\ nStdin = 0
    /\ script_dir = NoScriptDir
    /\ dirs = {os_path_split(py_path).head} \ { <<>> }
    /\ handles = {}
    /\ abi \in Abis
    /\ compiler_invoked = FALSE
    /\ stream = <<>>
    /\ handed = <<>>
    /\ raised = FALSE
    /\ nFeed = 0
    /\ hub_kind \in HubKinds
    /\ expected_checksum = NoChecksum
    /\ checksum_ready = FALSE
    /\ loading = FALSE
    /\ program_running = FALSE
    /\ user_program_stopped = FALSE
    /\ buffered_stdout = BytesIO_new
    /\ state = "UNKNOWN"
    /\ checksum = NoChecksum
    /\ char_buf = <<>>
    /\ log_file = NoFile
    /\ output = <<>>
    /\ print_output = TRUE
    /\ files = <<>>
    /\ pc = "idle"
    /\ mpy = <<>>
    /\ ci = 0
    /\ data = <<>>
    /\ off = 0
    /\ result = "none"
    /\ nusq = <<>>
    /\ terminal = <<>>
    /\ nRuns = 0 /\ nOut = 0 /\ nStatus = 0
    /\ blk = 0
    /\ wire = <<>>
    /\ sent = <<>>
    /\ okBlks = {}
    /\ sendres = "none"
    /\ matchedBlks = {}
    /\ badBlks = {}
    /\ staleBlks = {}
    /\ released = {}
    /\ issuedArmed = FALSE
    /\ nDisarm = 0
    /\ rx = <<>>
    /\ rxLoading = <<>>
    /\ wroteLoading = FALSE
    /\ suppressed = "none"

(* A session that transfers a program and returns (wait = False) *)
Init ==
    /\ InitObject
    /\ cls \in Classes
    /\ wait = FALSE
    /\ isatty = FALSE
    /\ py_path = <<115, 47, 112>>
    /\ abi = 5
    /\ eol_set = TRUE

envVars == <<nusq, nOut>>
outHist == <<rx, rxLoading, wroteLoading>>
runHist == <<wire, sent, okBlks, released, matchedBlks, badBlks, staleBlks>>

----------------------------------------------------------------------------
(* PybricksHub.send_block, lines 781-782 and up to the first write: the    *)
(* event is cleared, the slot armed and the first write issued in one      *)
(* segment. With nothing to write (BOOST and an empty block) the wait is   *)
(* entered at once.                                                        *)

send_block_arm(d) ==
    /\ checksum_ready' = FALSE
    /\ expected_checksum' = xor_bytes(d, 0)

send_block_begin(d) ==
    /\ send_block_arm(d)
    /\ data' = d
    /\ off' = 0
    /\ pc' = IF Fragments(hub_kind, d) = <<>> THEN "wait" ELSE "write"
    /\ blk' = blk + 1
    /\ sent' = Append(sent, d)
    /\ sendres' = "none"
    /\ issuedArmed' = (expected_checksum' = xor_bytes(d, 0))

(* PybricksHub.send_block, lines 794-798, then run's finally (line 834):   *)
(* the block failed, the slot is reset and loading ends.                   *)

send_block_except ==
    /\ expected_checksum' = NoChecksum

HubFail(why) ==
    /\ send_block_except
    /\ nDisarm' = IF expected_checksum # NoChecksum /\ expected_checksum' = NoChecksum
                  THEN nDisarm + 1 ELSE nDisarm
    /\ loading' = FALSE
    /\ sendres' = why
    /\ result' = why
    /\ pc' = "idle"

(* PybricksHub.run, lines 803-812: a run starts and awaits the compiler *)
HubRunBody ==
    /\ cls = "PybricksHub"
    /\ pc = "idle"
    /\ \E p \in BOOLEAN : print_output' = p
    /\ script_dir' = [set |-> TRUE, dir |-> os_path_split(py_path).head]
    /\ log_file' = NoFile
    /\ output' = <<>>
    /\ pc' = "compile"
    /\ result' = "none"
    /\ nRuns' = nRuns + 1
    /\ blk' = 0
    /\ sendres' = "none"
    /\ wire' = <<>> /\ sent' = <<>> /\ okBlks' = {} /\ released' = {}
    /\ matchedBlks' = {} /\ badBlks' = {} /\ staleBlks' = {}
    /\ suppressed' = "none"
    /\ nDisarm' = 0
    /\ compiler_invoked' = FALSE
    /\ seen_running' = FALSE
    /\ UNCHANGED <<sessVars, py_path, dirs, handles, abi, lineVars, cls, dev_program, hub_kind, hubFields, checksum_ready, state, checksum,
                   char_buf, files, mpy, ci, data, off, envVars, terminal,
                   nStatus, issuedArmed, outHist>>

HubRun == nRuns < MaxRuns /\ HubRunBody

HubRunOnce == nRuns = 0 /\ HubRunBody

(* compile_file failed: run ends before line 814 *)
HubCompileFail ==
    /\ cls = "PybricksHub"
    /\ pc = "compile"
    /\ pc' = "idle"
    /\ result' = "compile"
    /\ \E readable \in BOOLEAN, compiler_ok \in BOOLEAN :
         /\ compile_file(readable, abi, compiler_ok).raised # "no"
         /\ compiler_invoked' = compile_file(readable, abi, compiler_ok).invoked
    /\ UNCHANGED <<sessVars, pathVars, abi, lineVars, cls, dev_program, hub_kind, seen_running, hubFields, checksum_ready, state, checksum,
                   char_buf, log_file, output, print_output, files, mpy, ci,
                   data, off, envVars, terminal, nRuns, nStatus, blk, sendres,
                   issuedArmed, nDisarm, outHist, runHist, suppressed>>

(* PybricksHub.run, lines 812-820: the payload is there, loading starts    *)
(* and the length block is sent.                                           *)
HubCompiledFrom(P) ==
    /\ cls = "PybricksHub"
    /\ pc = "compile"
    /\ \E m \in P : mpy' = m
    /\ loading' = TRUE
    /\ user_program_stopped' = FALSE
    /\ ci' = 0
    /\ send_block_begin(to_bytes4(Len(mpy')))
    /\ compile_file(TRUE, abi, TRUE).raised = "no"
    /\ compiler_invoked' = compile_file(TRUE, abi, TRUE).invoked
    /\ UNCHANGED <<sessVars, pathVars, abi, lineVars, cls, dev_program, hub_kind, seen_running, program_running, buffered_stdout, state,
                   checksum, char_buf, log_file, output, print_output, files,
                   result, envVars, terminal, nRuns, nStatus, wire, okBlks,
                   released, matchedBlks, badBlks, staleBlks, nDisarm,
                   outHist, suppressed>>

(* The device answers a block it has received whole with one byte: the XOR *)
(* of the bytes it received, or a corrupted byte; or it does not answer.   *)
(* The answer travels behind what the device sent before it, and it is     *)
(* delivered at any later time.                                            *)
Replies == {"xor", "corrupt", "none"}

DeviceReply(q, w, b, reply) ==
    IF reply = "none" THEN q
    ELSE Append(q, [data |-> << IF reply = "corrupt"
                               THEN BitXor(xor_bytes(Received(w, b), 0), 255)
                               ELSE xor_bytes(Received(w, b), 0) >>,
                    run |-> nRuns, blk |-> b])

HubCompiled == HubCompiledFrom(Payloads)

HubCompiledLong == HubCompiledFrom(LongPayloads)

HubCompiledShort == HubCompiledFrom(ShortPayloads)

(* One write_gatt_char of send_block (lines 787-792) completes: the        *)
(* fragment has reached the device; after the last one the wait begins     *)
(* (line 793) and the device holds the whole block.                        *)
HubWriteDone ==
    /\ cls = "PybricksHub"
    /\ pc = "write"
    /\ LET frs == Fragments(hub_kind, data)
           w == Append(wire, [blk |-> blk, data |-> frs[off + 1]])
       IN  /\ wire' = w
           /\ off' = off + 1
           /\ IF off + 1 = Len(frs)
              THEN /\ pc' = "wait"
                   /\ \E reply \in Replies :
                        /\ reply # "none" => Len(nusq) < MaxQueue
                        /\ nusq' = DeviceReply(nusq, w, blk, reply)
              ELSE /\ pc' = "write"
                   /\ nusq' = nusq
    /\ UNCHANGED <<sessVars, pathVars, compVars, lineVars, cls, dev_program, hub_kind, seen_running, hubFields, checksum_ready, state, checksum,
                   char_buf, log_file, output, print_output, files, mpy, ci,
                   data, result, nOut, terminal, nRuns, nStatus, blk,
                   sent, okBlks, sendres, matchedBlks, badBlks, staleBlks,
                   released, issuedArmed, nDisarm, outHist, suppressed>>

(* A write_gatt_char of send_block raises (the transport failed) *)
HubWriteFail ==
    /\ cls = "PybricksHub"
    /\ pc = "write"
    /\ HubFail("transport")
    /\ UNCHANGED <<sessVars, pathVars, compVars, lineVars, cls, dev_program, hub_kind, seen_running, program_running, user_program_stopped,
                   buffered_stdout, checksum_ready, state, checksum, char_buf,
                   log_file, output, print_output, files, mpy, ci, data, off,
                   envVars, terminal, nRuns, nStatus, blk, issuedArmed,
                   outHist, runHist, suppressed>>

(* asyncio.wait_for (line 793) times out after 0.5 s. The timer may fire   *)
(* in the same loop iteration in which the event was set, and the wait is  *)
(* then cancelled all the same.                                            *)
HubTimeout ==
    /\ cls = "PybricksHub"
    /\ pc = "wait"
    /\ HubFail("timeout")
    /\ UNCHANGED <<sessVars, pathVars, compVars, lineVars, cls, dev_program, hub_kind, seen_running, program_running, user_program_stopped,
                   buffered_stdout, checksum_ready, state, checksum, char_buf,
                   log_file, output, print_output, files, mpy, ci, data, off,
                   envVars, terminal, nRuns, nStatus, blk, issuedArmed,
                   outHist, runHist, suppressed>>

(* PybricksHub.run, lines 836-916, up to the await of the gathered tasks:  *)
(* with a terminal on stdin its settings are saved and raw mode is set;    *)
(* then both tasks are created. The loop runs their first steps next, in   *)
(* the order of creation and with no other callback in between: pipe_stdin *)
(* enters its try block and awaits the pipe (line 844),                    *)
(* wait_for_program_end awaits the event (line 861), which returns at once *)
(* when the event is set, and then the sleep (line 866).                   *)
session_begin ==
    /\ save_mode' = IF isatty THEN tty ELSE save_mode
    /\ tty' = IF isatty THEN raw_mode(tty) ELSE tty
    /\ pipe' = "connect"
    /\ waiter' = IF user_program_stopped THEN "sleep" ELSE "wait"
    /\ pc' = "gather"
    /\ UNCHANGED <<result, wait, isatty, pipe_cancelled, nStdin>>

(* The wait of line 793 returns: send_block returns, and run goes on with  *)
(* the next chunk (lines 822-832) or leaves the try block (line 834).      *)
(* a send that does not wait for the acknowledgment *)
ack_ignored == TRUE

(* line 793: the wait is over when the event is set *)
ack_received == checksum_ready

HubAcked ==
    /\ cls = "PybricksHub"
    /\ pc = "wait"
    /\ ack_received
    /\ okBlks' = okBlks \cup {blk}
    /\ IF ci < Len(Chunks(mpy, ChunkSize))
       THEN /\ send_block_begin(Chunks(mpy, ChunkSize)[ci + 1])
            /\ ci' = ci + 1
            /\ UNCHANGED <<loading, result, sessVars>>
       ELSE /\ loading' = FALSE
            /\ sendres' = "ok"
            /\ IF wait THEN session_begin
               ELSE /\ result' = "ok"
                    /\ pc' = "idle"
                    /\ UNCHANGED sessVars
            /\ UNCHANGED <<expected_checksum, checksum_ready, data, off, ci,
                           blk, sent, issuedArmed>>
    /\ UNCHANGED <<pathVars, compVars, lineVars, cls, dev_program, hub_kind, seen_running, program_running, user_program_stopped,
                   buffered_stdout, state, checksum, char_buf, log_file,
                   output, print_output, files, mpy, envVars, terminal, nRuns,
                   nStatus, wire, released, matchedBlks, badBlks, staleBlks,
                   nDisarm, outHist, suppressed>>

----------------------------------------------------------------------------
(* PybricksHub.nus_handler, lines 664-684: one NUS notification is         *)
(* delivered. The code after the return of line 684 is never reached.      *)

(* a handler that takes any byte for the checksum *)
nus_checksum_any(byte, expected) == TRUE

(* line 668: the byte is the one expected *)
nus_checksum_matches(byte, expected) == byte = expected

(* lines 678-683: where device output goes *)
nus_output_buffered == loading

HubNusNotify ==
    /\ cls = "PybricksHub"
    /\ nusq # <<>>
    /\ LET n == Head(nusq)
           isOut == n.run = 0
           isStale == n.run # 0 /\ (n.run # nRuns \/ n.blk # blk)
       IN
       /\ nusq' = Tail(nusq)
       /\ IF expected_checksum # NoChecksum
          THEN /\ IF nus_checksum_matches(n.data[1], expected_checksum)
                  THEN /\ expected_checksum' = NoChecksum
                       /\ checksum_ready' = TRUE
                       /\ nDisarm' = nDisarm + 1
                       /\ released' = released \cup {blk}
                       /\ matchedBlks' = IF n.data[1] = xor_bytes(data, 0)
                                         THEN matchedBlks \cup {blk} ELSE matchedBlks
                       /\ UNCHANGED badBlks
                  ELSE \* RuntimeError raised inside the callback
                       /\ badBlks' = badBlks \cup {blk}
                       /\ UNCHANGED <<expected_checksum, checksum_ready, nDisarm,
                                      released, matchedBlks>>
               /\ staleBlks' = IF isStale THEN staleBlks \cup {blk} ELSE staleBlks
               /\ UNCHANGED <<buffered_stdout, terminal, outHist>>
          ELSE /\ IF nus_output_buffered
                  THEN /\ buffered_stdout' = BytesIO_write(buffered_stdout, n.data)
                       /\ rxLoading' = IF isOut THEN rxLoading \o n.data ELSE rxLoading
                       /\ UNCHANGED <<terminal, wroteLoading>>
                  ELSE /\ terminal' = terminal \o n.data
                       /\ wroteLoading' = (wroteLoading \/ loading)
                       /\ UNCHANGED <<buffered_stdout, rxLoading>>
               /\ rx' = IF isOut THEN rx \o n.data ELSE rx
               /\ UNCHANGED <<expected_checksum, checksum_ready, nDisarm, released,
                              matchedBlks, badBlks, staleBlks>>
    /\ UNCHANGED <<sessVars, pathVars, compVars, lineVars, cls, dev_program, hub_kind, seen_running, loading, program_running, user_program_stopped,
                   state, checksum, char_buf, log_file, output, print_output,
                   files, pc, mpy, ci, data, off, result, nRuns,
                   nOut, nStatus, blk, wire, sent, okBlks, sendres, issuedArmed,
                   suppressed>>

----------------------------------------------------------------------------
(* PybricksHub.pybricks_service_handler, lines 708-727: one notification   *)
(* of the Pybricks control characteristic is delivered.                    *)

(* line 712 *)
program_running_now(flags) == BitAnd(flags, USER_PROGRAM_RUNNING_flag) # 0

(* a handler that forgets the loading guard *)
status_always == TRUE

(* line 718 *)
status_applies == ~loading

HubStatusNotify ==
    /\ cls = "PybricksHub"
    /\ nStatus < MaxStatus
    /\ nStatus' = nStatus + 1
    /\ \E ev \in EventKinds, flags \in StatusFlags :
         LET now == program_running_now(flags) IN
         /\ seen_running' = (seen_running \/ (ev = STATUS_REPORT /\ now))
         /\ IF ev = STATUS_REPORT
            THEN IF status_applies
                 THEN /\ IF program_running # now
                         THEN /\ program_running' = now
                              /\ terminal' = terminal \o BytesIO_read(buffered_stdout)
                              /\ buffered_stdout' = BytesIO_after_read(buffered_stdout)
                              /\ wroteLoading' =
                                   (wroteLoading \/ (loading /\ BytesIO_read(buffered_stdout) # <<>>))
                         ELSE UNCHANGED <<program_running, terminal, buffered_stdout,
                                          wroteLoading>>
                      /\ user_program_stopped' = (user_program_stopped \/ ~now)
                      /\ suppressed' = "none"
                 ELSE /\ suppressed' = IF now THEN "running" ELSE "stopped"
                      /\ UNCHANGED <<program_running, terminal, buffered_stdout,
                                     wroteLoading, user_program_stopped>>
            ELSE UNCHANGED <<program_running, terminal, buffered_stdout, wroteLoading,
                             user_program_stopped, suppressed>>
    /\ UNCHANGED <<sessVars, pathVars, compVars, lineVars, cls, dev_program, hub_kind, expected_checksum, checksum_ready, loading,
                   state, checksum, char_buf, log_file, output, print_output,
                   files, pc, mpy, ci, data, off, result, envVars, nRuns, blk,
                   sendres, issuedArmed, nDisarm, rx, rxLoading, runHist>>

----------------------------------------------------------------------------
(* The device sends the program's output when it likes: the k-th           *)
(* notification carries the letter "A", "B", ... that tells it apart from  *)
(* the others and from the checksums of the payloads above.                *)
OutByte(k) == 64 + k
IsOutByte(b) == b > 64 /\ b <= 64 + MaxOut

DeviceOutput ==
    /\ Len(nusq) < MaxQueue
    /\ nOut < MaxOut
    /\ nOut' = nOut + 1
    /\ nusq' = Append(nusq, [data |-> << OutByte(nOut + 1) >>, run |-> 0, blk |-> 0])
    /\ UNCHANGED <<sessVars, pathVars, compVars, lineVars, cls, dev_program, hub_kind, seen_running, hubFields, checksum_ready, pupFields,
                   print_output, pc, mpy, ci, data, off, result,
                   terminal, nRuns, nStatus, blk, sendres, issuedArmed, nDisarm,
                   outHist, runHist, suppressed>>

----------------------------------------------------------------------------
(* CharacterGlue.data_handler, lines 104-114: the buffer cut into lines *)

(* bytearray.find: the lowest 0-based index of pat in buf, or -1 *)
Find(buf, pat) ==
    LET hits == {i \in 0..(Len(buf) - Len(pat)) : SubSeq(buf, i + 1, i + Len(pat)) = pat}
    IN  IF hits = {} THEN 0 - 1 ELSE CHOOSE i \in hits : \A j \in hits : i <= j

(* pat in line *)
Contains(line, pat) == Find(line, pat) >= 0

RECURSIVE SplitLines(_, _)
SplitLines(buf, eol) ==
    IF Find(buf, eol) < 0
    THEN [lines |-> <<>>, rest |-> buf]
    ELSE LET i == Find(buf, eol)
             r == SplitLines(SubSeq(buf, i + Len(eol) + 1, Len(buf)), eol)
         IN  [lines |-> << SubSeq(buf, 1, i) >> \o r.lines, rest |-> r.rest]

(* a handler that never takes a line for the close command *)
never_close(line) == FALSE

(* lines 186 and 646 *)
is_close_command(line) == Contains(line, PB_EOF)

(* open(path, "w") creates or empties the file; it raises when the         *)
(* directory of the path does not exist.                                   *)
can_open(L, path) ==
    os_path_split(path).head = <<>> \/ os_path_split(path).head \in L.dirs

open_w(L, path) ==
    [L EXCEPT !.log_file = [open |-> TRUE, name |-> path],
              !.files = (path :> <<>>) @@ L.files,
              !.handles = @ \cup {path}]

(* PybricksPUPProtocol.line_handler, lines 168-203, on the record L of what *)
(* it reads and writes: log_file, files, dirs, output, term (the terminal) *)
(* and err (it raised).                                                    *)
line_handler(L, line, printing) ==
    IF Contains(line, PB_OF)
    THEN IF L.log_file.open
         THEN [L EXCEPT !.err = TRUE]
         ELSE IF can_open(L, Slice(line, 6, Len(line)))
              THEN open_w(L, Slice(line, 6, Len(line)))
              ELSE [L EXCEPT !.err = TRUE]
    ELSE IF is_close_command(line)
    THEN IF ~L.log_file.open
         THEN [L EXCEPT !.err = TRUE]
         ELSE [L EXCEPT !.log_file = NoFile, !.handles = @ \ {L.log_file.name}]
    ELSE IF L.log_file.open
    THEN [L EXCEPT !.files[L.log_file.name] = @ \o line \o <<10>>]
    ELSE [L EXCEPT !.output = Append(@, line),
                   !.term = IF printing THEN @ \o line \o <<10>> ELSE @]

(* PybricksHub.line_handler, lines 620-662: as above, but the log is       *)
(* opened relative to the directory sdir of the script, and its directory  *)
(* is made when it does not exist. os.path.exists("") is false and         *)
(* os.makedirs("") raises FileNotFoundError.                               *)
hub_line_handler(L, line, printing, sdir) ==
    IF Contains(line, PB_OF)
    THEN IF L.log_file.open
         THEN [L EXCEPT !.err = TRUE]
         ELSE LET full_path == os_path_join(sdir, Slice(line, 6, Len(line)))
                  dir_path == os_path_split(full_path).head
              IN  IF dir_path \in L.dirs
                  THEN open_w(L, full_path)
                  ELSE IF dir_path = <<>>
                  THEN [L EXCEPT !.err = TRUE]
                  ELSE open_w([L EXCEPT !.dirs = @ \cup {dir_path}], full_path)
    ELSE IF is_close_command(line)
    THEN IF ~L.log_file.open
         THEN [L EXCEPT !.err = TRUE]
         ELSE [L EXCEPT !.log_file = NoFile, !.handles = @ \ {L.log_file.name}]
    ELSE IF L.log_file.open
    THEN [L EXCEPT !.files[L.log_file.name] = @ \o line \o <<10>>]
    ELSE [L EXCEPT !.output = Append(@, line),
                   !.term = IF printing THEN @ \o line \o <<10>> ELSE @]

(* lines 117-118: the handler is called for each line, until it raises;    *)
(* handed lists the lines it was called with.                              *)
RECURSIVE HandleLines(_, _, _)
HandleLines(L, lines, printing) ==
    IF lines = <<>> \/ L.err THEN L
    ELSE HandleLines(line_handler([L EXCEPT !.handed = Append(@, Head(lines))],
                                  Head(lines), printing),
                     Tail(lines), printing)

----------------------------------------------------------------------------
(* PybricksPUPProtocol *)

(* prepare_checksum, lines 216-220 *)
prepare_checksum ==
    /\ state' = "AWAITING_CHECKSUM"
    /\ checksum' = NoChecksum
    /\ checksum_ready' = FALSE

(* send_message, lines 254-264: the slot is prepared and the write issued *)
send_message_begin(d) ==
    /\ prepare_checksum
    /\ data' = d
    /\ off' = 0
    /\ pc' = "write"
    /\ blk' = blk + 1
    /\ sent' = Append(sent, d)
    /\ sendres' = "none"
    /\ issuedArmed' = (state' = "AWAITING_CHECKSUM")

(* run, lines 276-294 *)
PUPRunBody ==
    /\ cls = "PybricksPUPProtocol"
    /\ pc = "idle"
    /\ \E p \in BOOLEAN : print_output' = p
    /\ log_file' = NoFile
    /\ output' = <<>>
    /\ pc' = "compile"
    /\ result' = "none"
    /\ nRuns' = nRuns + 1
    /\ blk' = 0
    /\ sendres' = "none"
    /\ wire' = <<>> /\ sent' = <<>> /\ okBlks' = {} /\ released' = {}
    /\ matchedBlks' = {} /\ badBlks' = {} /\ staleBlks' = {}
    /\ nDisarm' = 0
    /\ compiler_invoked' = FALSE
    /\ dev_program' = "none"
    /\ UNCHANGED <<sessVars, pathVars, abi, lineVars, cls, hub_kind, seen_running, hubFields, checksum_ready, state, checksum,
                   char_buf, files, mpy, ci, data, off, envVars, terminal,
                   nStatus, issuedArmed, outHist, suppressed>>

PUPRun == nRuns < MaxRuns /\ PUPRunBody

PUPRunOnce == nRuns = 0 /\ PUPRunBody

(* compile_file failed: run ends at line 294 *)
PUPCompileFail ==
    /\ cls = "PybricksPUPProtocol"
    /\ pc = "compile"
    /\ pc' = "idle"
    /\ result' = "compile"
    /\ \E readable \in BOOLEAN, compiler_ok \in BOOLEAN :
         /\ compile_file(readable, abi, compiler_ok).raised # "no"
         /\ compiler_invoked' = compile_file(readable, abi, compiler_ok).invoked
    /\ UNCHANGED <<sessVars, pathVars, abi, lineVars, cls, dev_program, hub_kind, seen_running, hubFields, checksum_ready, pupFields,
                   print_output, mpy, ci, data, off, envVars, terminal, nRuns,
                   nStatus, blk, sendres, issuedArmed, nDisarm, outHist,
                   runHist, suppressed>>

(* run, lines 294-298: the length block is sent; send_message refuses a    *)
(* block of more than 100 bytes before it touches the slot (line 254).     *)
PUPCompiledFrom(P) ==
    /\ cls = "PybricksPUPProtocol"
    /\ pc = "compile"
    /\ \E m \in P : mpy' = m
    /\ ci' = 0
    /\ Len(to_bytes4(Len(mpy'))) <= MaxMessage
    /\ send_message_begin(to_bytes4(Len(mpy')))
    /\ compile_file(TRUE, abi, TRUE).raised = "no"
    /\ compiler_invoked' = compile_file(TRUE, abi, TRUE).invoked
    /\ UNCHANGED <<sessVars, pathVars, abi, lineVars, cls, dev_program, hub_kind, seen_running, hubFields, char_buf, log_file, output,
                   print_output, files, result, envVars, terminal, nRuns,
                   nStatus, wire, okBlks, released, matchedBlks, badBlks,
                   staleBlks, nDisarm, outHist, suppressed>>

PUPCompiled == PUPCompiledFrom(Payloads)

PUPCompiledLong == PUPCompiledFrom(LongPayloads)

PUPCompiledShort == PUPCompiledFrom(ShortPayloads)

(* The write of line 264 completes; the wait of line 228 begins *)
PUPWriteDone ==
    /\ cls = "PybricksPUPProtocol"
    /\ pc = "write"
    /\ LET w == Append(wire, [blk |-> blk, data |-> data])
       IN  /\ wire' = w
           /\ \E reply \in Replies :
                /\ reply # "none" => Len(nusq) < MaxQueue
                /\ nusq' = DeviceReply(nusq, w, blk, reply)
    /\ off' = off + 1
    /\ pc' = "wait"
    /\ UNCHANGED <<sessVars, pathVars, compVars, lineVars, cls, dev_program, hub_kind, seen_running, hubFields, checksum_ready, pupFields,
                   print_output, mpy, ci, data, result, nOut, terminal, nRuns,
                   nStatus, blk, sent, okBlks, sendres, matchedBlks, badBlks,
                   staleBlks, released, issuedArmed, nDisarm, outHist,
                   suppressed>>

(* An error leaves send_message and run as it is raised: nothing is reset *)
send_message_raise(why) ==
    /\ sendres' = why
    /\ result' = why
    /\ pc' = "idle"

(* The write of line 264 raises *)
PUPWriteFail ==
    /\ cls = "PybricksPUPProtocol"
    /\ pc = "write"
    /\ send_message_raise("transport")
    /\ UNCHANGED <<sessVars, pathVars, compVars, lineVars, cls, dev_program, hub_kind, seen_running, hubFields, checksum_ready, pupFields,
                   print_output, mpy, ci, data, off, envVars, terminal, nRuns,
                   nStatus, blk, issuedArmed, nDisarm, outHist, runHist,
                   suppressed>>

(* wait_for_checksum, line 228: asyncio.wait_for times out after 0.5 s *)
PUPTimeout ==
    /\ cls = "PybricksPUPProtocol"
    /\ pc = "wait"
    /\ send_message_raise("timeout")
    /\ UNCHANGED <<sessVars, pathVars, compVars, lineVars, cls, dev_program, hub_kind, seen_running, hubFields, checksum_ready, pupFields,
                   print_output, mpy, ci, data, off, envVars, terminal, nRuns,
                   nStatus, blk, issuedArmed, nDisarm, outHist, runHist,
                   suppressed>>

(* send_message, line 271: the reply is the checksum computed at line 258 *)
reply_matches(expected, reply) == expected = reply

(* wait_for_checksum returns (lines 229-232): the slot is prepared again   *)
(* and the state set to IDLE; send_message compares the reply (line 271);  *)
(* run goes on with the next chunk (lines 300-310); after the last one it  *)
(* ends, or with wait it starts the sleep of line 314. The device, which   *)
(* has acknowledged the whole payload, starts the program.                 *)
PUPAcked ==
    /\ cls = "PybricksPUPProtocol"
    /\ pc = "wait"
    /\ checksum_ready
    /\ nDisarm' = IF state = "AWAITING_CHECKSUM" THEN nDisarm + 1 ELSE nDisarm
    /\ IF ~reply_matches(xor_bytes(data, 0), checksum)
       THEN /\ state' = "IDLE"
            /\ checksum' = NoChecksum
            /\ checksum_ready' = FALSE
            /\ send_message_raise("checksum")
            /\ UNCHANGED <<okBlks, data, off, ci, blk, sent, issuedArmed, dev_program>>
       ELSE /\ okBlks' = okBlks \cup {blk}
            /\ IF ci < Len(Chunks(mpy, ChunkSize))
               THEN /\ Len(Chunks(mpy, ChunkSize)[ci + 1]) <= MaxMessage
                    /\ send_message_begin(Chunks(mpy, ChunkSize)[ci + 1])
                    /\ ci' = ci + 1
                    /\ UNCHANGED <<result, dev_program>>
               ELSE /\ state' = "IDLE"
                    /\ checksum' = NoChecksum
                    /\ checksum_ready' = FALSE
                    /\ sendres' = "ok"
                    /\ dev_program' = "running"
                    /\ IF wait
                       THEN pc' = "sleep" /\ UNCHANGED result
                       ELSE pc' = "idle" /\ result' = "ok"
                    /\ UNCHANGED <<data, off, ci, blk, sent, issuedArmed>>
    /\ UNCHANGED <<sessVars, pathVars, compVars, lineVars, cls, hub_kind, seen_running, hubFields, char_buf, log_file, output,
                   print_output, files, mpy, envVars, terminal, nRuns, nStatus,
                   wire, released, matchedBlks, badBlks, staleBlks, outHist,
                   suppressed>>

(* wait_until_state_is_not, line 239: the test that ends the polling *)
state_is_not(s) == state # s

pupRest == <<sessVars, pathVars, compVars, lineVars, cls, hub_kind, seen_running, hubFields,
             checksum_ready, pupFields, print_output, mpy, ci, data, off,
             envVars, terminal, nRuns, nStatus, blk, sendres, issuedArmed,
             nDisarm, outHist, runHist, suppressed>>

(* run, line 314: the sleep of 0.2 s is over; wait_until_state_is_not      *)
(* starts its first sleep of 0.1 s (line 238)                              *)
PUPSlept ==
    /\ cls = "PybricksPUPProtocol"
    /\ pc = "sleep"
    /\ pc' = "poll"
    /\ UNCHANGED <<pupRest, result, dev_program>>

(* wait_until_state_is_not, lines 238-240: a sleep of 0.1 s is over and    *)
(* the state is compared with RUNNING; run returns when it differs         *)
PUPPolled ==
    /\ cls = "PybricksPUPProtocol"
    /\ pc = "poll"
    /\ IF state_is_not("RUNNING")
       THEN pc' = "idle" /\ result' = "ok"
       ELSE UNCHANGED <<pc, result>>
    /\ UNCHANGED <<pupRest, dev_program>>

(* The program on the device runs to its end *)
ProgramEnds ==
    /\ cls = "PybricksPUPProtocol"
    /\ dev_program = "running"
    /\ dev_program' = "ended"
    /\ UNCHANGED <<pupRest, pc, result>>

(* char_handler, line 156: the byte is the checksum *)
char_is_checksum == state = "AWAITING_CHECKSUM"

(* CharacterGlue.data_handler (lines 83-118) with char_handler (lines      *)
(* 139-166) and line_handler: one notification is delivered. The state     *)
(* does not change inside the call, so every byte of it is treated alike.  *)
PUPNotify ==
    /\ cls = "PybricksPUPProtocol"
    /\ nusq # <<>>
    /\ LET n == Head(nusq)
           isOut == n.run = 0
           isStale == n.run # 0 /\ (n.run # nRuns \/ n.blk # blk)
           taken == char_is_checksum
           split == SplitLines(IF taken THEN char_buf ELSE char_buf \o n.data, EOL)
           L == HandleLines([log_file |-> log_file, files |-> files, dirs |-> dirs,
                             handles |-> handles,
                             output |-> output, term |-> terminal, err |-> FALSE,
                             handed |-> handed],
                            split.lines, print_output)
       IN
       /\ nusq' = Tail(nusq)
       /\ rx' = IF isOut THEN rx \o n.data ELSE rx
       /\ checksum' = IF taken THEN n.data[Len(n.data)] ELSE checksum
       /\ checksum_ready' = (checksum_ready \/ taken)
       /\ released' = IF taken THEN released \cup {blk} ELSE released
       /\ matchedBlks' = IF taken /\ \E k \in 1..Len(n.data) : n.data[k] = xor_bytes(data, 0)
                         THEN matchedBlks \cup {blk} ELSE matchedBlks
       /\ badBlks' = IF taken /\ \E k \in 1..Len(n.data) : n.data[k] # xor_bytes(data, 0)
                     THEN badBlks \cup {blk} ELSE badBlks
       /\ staleBlks' = IF taken /\ isStale THEN staleBlks \cup {blk} ELSE staleBlks
       /\ char_buf' = split.rest
       /\ log_file' = L.log_file
       /\ files' = L.files
       /\ output' = L.output
       /\ terminal' = L.term
       /\ stream' = IF taken THEN stream ELSE stream \o n.data
       /\ handed' = L.handed
       /\ raised' = L.err
       /\ handles' = L.handles
    /\ UNCHANGED <<sessVars, py_path, script_dir, dirs, compVars, eol_set, nFeed, cls, dev_program, hub_kind, seen_running, hubFields, state, print_output, pc, mpy, ci,
                   data, off, result, nOut, nRuns, nStatus, blk, wire, sent,
                   okBlks, sendres, issuedArmed, nDisarm, rxLoading,
                   wroteLoading, suppressed>>

----------------------------------------------------------------------------
(* Lines from the device: CharacterGlue with its own hooks, the line       *)
(* handling of PybricksPUPProtocol, and PybricksHub.line_handler.          *)
MaxFeed == 4

(* bytes: 13 10 is the marker, 97 "a", 98 "b", 32 " ", 100 "d", 102 "f" *)
GlueFragments ==
    { <<13>>, <<10>>, <<97>>, <<13, 10>>, <<97, 13>>, <<10, 97>>, <<13, 13>>,
      <<97, 13, 10, 98, 13, 10>> }

LogOpen(name) == PB_OF \o <<32>> \o name

OutputLines == { <<97>>, <<98>> }
SentinelLines == { LogOpen(<<102>>), LogOpen(<<100, 47, 102>>), PB_EOF }
(* a line of output with the text of a sentinel inside: "a PB_EOF" *)
EmbeddedLines == { <<97, 32>> \o PB_EOF }
DeviceLineSet == OutputLines \cup SentinelLines \cup EmbeddedLines

SentinelFragments ==
    { l \o EOL : l \in DeviceLineSet } \cup { PB_EOF \o EOL \o <<97>> \o EOL }

(* The device sends line data; the notification is delivered before the    *)
(* next one is sent. The program output of a hub follows a run.            *)
DeviceLines ==
    /\ cls \in {"CharacterGlue", "PybricksPUPProtocol"}
    /\ cls = "PybricksPUPProtocol" => (pc = "idle" /\ nRuns = 1)
    /\ nFeed < MaxFeed
    /\ nusq = <<>>
    /\ nFeed' = nFeed + 1
    /\ \E f \in IF cls = "CharacterGlue" THEN GlueFragments ELSE SentinelFragments :
         nusq' = << [data |-> f, run |-> 0, blk |-> 0] >>
    /\ UNCHANGED <<sessVars, pathVars, compVars, eol_set, stream, handed, raised, cls, dev_program,
                   hub_kind, seen_running, hubFields, checksum_ready, pupFields, print_output,
                   pc, mpy, ci, data, off, result, nOut, terminal, nRuns,
                   nStatus, blk, sendres, issuedArmed, nDisarm, outHist,
                   runHist, suppressed>>

(* repr of a bytearray, as print(line) of line 81 writes it *)
ReprByte(b) == IF b = 13 THEN <<92, 114>> ELSE IF b = 10 THEN <<92, 110>> ELSE <<b>>

RECURSIVE ReprBytes(_)
ReprBytes(d) == IF d = <<>> THEN <<>> ELSE ReprByte(Head(d)) \o ReprBytes(Tail(d))

print_bytearray(line) ==
    <<98, 121, 116, 101, 97, 114, 114, 97, 121, 40, 98, 39>> \o ReprBytes(line)
        \o <<39, 41, 10>>

RECURSIVE PrintLines(_)
PrintLines(lines) ==
    IF lines = <<>> THEN <<>>
    ELSE print_bytearray(Head(lines)) \o PrintLines(Tail(lines))

(* a buffer that is emptied after each call *)
drop_rest(r) == <<>>

(* line 114: only the line and its marker are taken out of the buffer *)
keep_rest(r) == r

(* CharacterGlue.data_handler, lines 83-118, with the hooks of the class   *)
(* itself: char_handler (58-70) returns every byte, line_handler (72-81)   *)
(* prints the line.                                                        *)
GlueNotify ==
    /\ cls = "CharacterGlue"
    /\ nusq # <<>>
    /\ LET n == Head(nusq)
           buf == char_buf \o n.data
           split == SplitLines(buf, EOL)
       IN
       /\ nusq' = Tail(nusq)
       /\ stream' = stream \o n.data
       /\ IF eol_set
          THEN /\ char_buf' = keep_rest(split.rest)
               /\ handed' = handed \o split.lines
               /\ terminal' = terminal \o PrintLines(split.lines)
          ELSE /\ char_buf' = buf
               /\ UNCHANGED <<handed, terminal>>
    /\ UNCHANGED <<sessVars, pathVars, compVars, eol_set, raised, nFeed, cls, dev_program, hub_kind, seen_running,
                   hubFields, checksum_ready, state, checksum, log_file, output,
                   files, print_output, pc, mpy, ci, data, off, result, nOut,
                   nRuns, nStatus, blk, sendres, issuedArmed, nDisarm, outHist,
                   runHist, suppressed>>

(* PybricksHub.line_handler (lines 620-662) is called with a line. Nothing *)
(* in the class calls it: nus_handler returns before the code that frames  *)
(* lines (line 684).                                                       *)
HubLine ==
    /\ cls = "PybricksHub"
    /\ script_dir.set
    /\ pc = "idle"
    /\ nFeed < MaxFeed
    /\ nFeed' = nFeed + 1
    /\ \E line \in DeviceLineSet :
         LET L == hub_line_handler([log_file |-> log_file, files |-> files,
                                    dirs |-> dirs, handles |-> handles,
                                    output |-> output,
                                    term |-> terminal, err |-> FALSE,
                                    handed |-> Append(handed, line)],
                                   line, print_output, script_dir.dir)
         IN  /\ log_file' = L.log_file
             /\ files' = L.files
             /\ dirs' = L.dirs
             /\ handles' = L.handles
             /\ output' = L.output
             /\ terminal' = L.term
             /\ handed' = L.handed
             /\ raised' = L.err
    /\ UNCHANGED <<sessVars, py_path, script_dir, compVars, eol_set, stream, cls, dev_program, hub_kind, seen_running,
                   hubFields, checksum_ready, state, checksum, char_buf,
                   print_output, pc, mpy, ci, data, off, result, envVars, nRuns,
                   nStatus, blk, sendres, issuedArmed, nDisarm, outHist,
                   runHist, suppressed>>

(* The device sends a line of its log protocol at any time, also while a  *)
(* program is compiled or transferred.                                     *)
MaxLogs == 2

LogFragments == { LogOpen(<<102>>) \o EOL, PB_EOF \o EOL }

DeviceLog ==
    /\ cls = "PybricksPUPProtocol"
    /\ nFeed < MaxLogs
    /\ Len(nusq) < MaxQueue
    /\ nFeed' = nFeed + 1
    /\ \E f \in LogFragments :
         nusq' = Append(nusq, [data |-> f, run |-> 0, blk |-> 0])
    /\ UNCHANGED <<sessVars, pathVars, compVars, eol_set, stream, handed, raised, cls, dev_program,
                   hub_kind, seen_running, hubFields, checksum_ready, pupFields, print_output,
                   pc, mpy, ci, data, off, result, nOut, terminal, nRuns,
                   nStatus, blk, sendres, issuedArmed, nDisarm, outHist,
                   runHist, suppressed>>

----------------------------------------------------------------------------
(* The interactive part of PybricksHub.run (lines 836-922): the tasks      *)
(* pipe_stdin and wait_for_program_end, gathered and awaited by run.       *)
(* A task is at "connect", "read", "write" (pipe_stdin) or at "wait",     *)
(* "sleep", "rewait" (wait_for_program_end) while it is suspended at that  *)
(* await; "cancelling" once Task.cancel() was called on it and until its   *)
(* next step; then "done", "failed" or "cancelled".                        *)
MaxStdin == 1

PipeActive == {"connect", "read", "write"}
WaiterActive == {"wait", "sleep", "rewait"}

sessRest == <<wait, isatty, tty, save_mode>>

otherVars == <<cls, dev_program, hub_kind, seen_running, hubFields, checksum_ready, pupFields, print_output,
               pc, mpy, ci, data, off, result, envVars, terminal, nRuns, nStatus,
               blk, sendres, issuedArmed, nDisarm, outHist, runHist, suppressed,
               pathVars, compVars, lineVars>>

(* line 844: the read pipe is connected, the first read is awaited *)
PipeConnected ==
    /\ pipe = "connect"
    /\ pipe' = "read"
    /\ UNCHANGED <<otherVars, sessRest, waiter, pipe_cancelled, nStdin>>

(* lines 850-855: a chunk was read, its write to the hub is awaited *)
PipeRead ==
    /\ pipe = "read"
    /\ nStdin < MaxStdin
    /\ nStdin' = nStdin + 1
    /\ pipe' = "write"
    /\ UNCHANGED <<otherVars, sessRest, waiter, pipe_cancelled>>

(* lines 850-853: the read returned no data, the loop and the task end *)
PipeEOF ==
    /\ pipe = "read"
    /\ pipe' = "done"
    /\ UNCHANGED <<otherVars, sessRest, waiter, pipe_cancelled, nStdin>>

(* line 855 returned: the next read is awaited *)
PipeWritten ==
    /\ pipe = "write"
    /\ pipe' = "read"
    /\ UNCHANGED <<otherVars, sessRest, waiter, pipe_cancelled, nStdin>>

(* line 855 raised: only CancelledError is caught, the task fails *)
PipeWriteFail ==
    /\ pipe = "write"
    /\ pipe' = "failed"
    /\ UNCHANGED <<otherVars, sessRest, waiter, pipe_cancelled, nStdin>>

(* a handler that lets the cancellation escape *)
cancel_escapes == "cancelled"

(* lines 856-857: CancelledError is caught and the coroutine returns *)
cancel_caught == "done"

(* The step of pipe_stdin after Task.cancel(): CancelledError is thrown    *)
(* in at the await where the task is suspended, inside the try block.      *)
PipeCancelled ==
    /\ pipe = "cancelling"
    /\ pipe' = cancel_caught
    /\ UNCHANGED <<otherVars, sessRest, waiter, pipe_cancelled, nStdin>>

(* line 881: the done callback of wait_task; cancel() of a task that has   *)
(* finished does nothing.                                                  *)
pipe_task_cancel == IF pipe \in PipeActive THEN "cancelling" ELSE pipe
cancel_mark == IF pipe \in PipeActive THEN pipe ELSE pipe_cancelled

(* line 861: the event was set, the settle delay of line 866 starts *)
WaiterWoken ==
    /\ waiter = "wait"
    /\ user_program_stopped
    /\ waiter' = "sleep"
    /\ UNCHANGED <<otherVars, sessRest, pipe, pipe_cancelled, nStdin>>

(* a watcher that waits again without clearing the event *)
rearm_keeps == user_program_stopped

(* line 871 *)
rearm_clears == FALSE

(* lines 866-872: the delay is over. If the program runs again the event   *)
(* is cleared and awaited once more, else the task is done and its done    *)
(* callback cancels pipe_stdin.                                            *)
WaiterSettled ==
    /\ waiter = "sleep"
    /\ IF program_running
       THEN /\ user_program_stopped' = rearm_clears
            /\ waiter' = IF user_program_stopped' THEN "done" ELSE "rewait"
       ELSE /\ waiter' = "done"
            /\ UNCHANGED user_program_stopped
    /\ pipe' = IF waiter' = "done" THEN pipe_task_cancel ELSE pipe
    /\ pipe_cancelled' = IF waiter' = "done" THEN cancel_mark ELSE pipe_cancelled
    /\ UNCHANGED <<cls, dev_program, hub_kind, seen_running, expected_checksum, loading, program_running,
                   buffered_stdout, checksum_ready, pupFields, print_output,
                   pc, mpy, ci, data, off, result, envVars, terminal, nRuns,
                   nStatus, blk, sendres, issuedArmed, nDisarm, outHist,
                   runHist, suppressed, pathVars, compVars, lineVars, sessRest, nStdin>>

(* line 872: the event was set again; the task is done and its done        *)
(* callback cancels pipe_stdin.                                            *)
WaiterRewoken ==
    /\ waiter = "rewait"
    /\ user_program_stopped
    /\ waiter' = "done"
    /\ pipe' = pipe_task_cancel
    /\ pipe_cancelled' = cancel_mark
    /\ UNCHANGED <<otherVars, sessRest, nStdin>>

(* The step of wait_for_program_end after Task.cancel(): nothing catches   *)
(* CancelledError there.                                                   *)
WaiterCancelled ==
    /\ waiter = "cancelling"
    /\ waiter' = "cancelled"
    /\ UNCHANGED <<otherVars, sessRest, pipe, pipe_cancelled, nStdin>>

(* a session that restores the terminal only when it ends well *)
restore_if_ok(outcome) == outcome = "ok"

(* lines 917-919: the finally clause runs however the await ended *)
restore_always(outcome) == TRUE

(* run resumes from line 916 or 922 with the outcome of the gathered tasks *)
session_end(outcome) ==
    /\ tty' = IF isatty /\ restore_always(outcome) THEN save_mode ELSE tty
    /\ result' = outcome
    /\ pc' = "idle"
    /\ UNCHANGED <<cls, dev_program, hub_kind, seen_running, hubFields, checksum_ready, pupFields,
                   print_output, mpy, ci, data, off, envVars, terminal, nRuns,
                   nStatus, blk, sendres, issuedArmed, nDisarm, outHist,
                   runHist, suppressed, pathVars, compVars, lineVars, wait, isatty,
                   save_mode, pipe, waiter, pipe_cancelled, nStdin>>

(* a gather that is over when its first task is *)
gather_first == pipe = "done" \/ waiter = "done"

(* line 883: asyncio.gather has its result when both tasks have theirs *)
gather_all == pipe = "done" /\ waiter = "done"

SessionDone ==
    /\ pc = "gather"
    /\ gather_all
    /\ session_end("ok")

(* gather hands the first exception of a task to run at once; the other    *)
(* task is left as it is.                                                  *)
SessionFailed ==
    /\ pc = "gather"
    /\ pipe = "failed"
    /\ session_end("transport")

(* run is cancelled from outside while it awaits the gathered tasks: the   *)
(* cancellation is passed on to the tasks that have not finished.          *)
RunCancel ==
    /\ pc = "gather"
    /\ pc' = "cancelling"
    /\ pipe' = pipe_task_cancel
    /\ pipe_cancelled' = cancel_mark
    /\ waiter' = IF waiter \in WaiterActive THEN "cancelling" ELSE waiter
    /\ UNCHANGED <<cls, dev_program, hub_kind, seen_running, hubFields, checksum_ready, pupFields,
                   print_output, mpy, ci, data, off, result, envVars, terminal,
                   nRuns, nStatus, blk, sendres, issuedArmed, nDisarm, outHist,
                   runHist, suppressed, pathVars, compVars, lineVars, sessRest, nStdin>>

(* both tasks have taken the cancellation: CancelledError reaches run *)
SessionCancelled ==
    /\ pc = "cancelling"
    /\ pipe \notin PipeActive \cup {"cancelling"}
    /\ waiter \notin WaiterActive \cup {"cancelling"}
    /\ session_end("cancelled")

----------------------------------------------------------------------------
(* The block transfer of both classes, run after run, against a device     *)
(* that answers, answers wrongly, answers late or does not answer.         *)
Next ==
    \/ HubRun
    \/ HubCompileFail
    \/ HubCompiled
    \/ HubWriteDone
    \/ HubWriteFail
    \/ HubTimeout
    \/ HubAcked
    \/ HubNusNotify
    \/ PUPRun
    \/ PUPCompileFail
    \/ PUPCompiled
    \/ PUPWriteDone
    \/ PUPWriteFail
    \/ PUPTimeout
    \/ PUPAcked
    \/ PUPNotify

Spec == Init /\ [][Next]_vars

(* One run of either class with payloads of every shape *)
NextXfer ==
    \/ HubRunOnce
    \/ HubCompileFail
    \/ HubCompiledLong
    \/ HubWriteDone
    \/ HubWriteFail
    \/ HubTimeout
    \/ HubAcked
    \/ HubNusNotify
    \/ PUPRunOnce
    \/ PUPCompileFail
    \/ PUPCompiledLong
    \/ PUPWriteDone
    \/ PUPWriteFail
    \/ PUPTimeout
    \/ PUPAcked
    \/ PUPNotify

SpecXfer == Init /\ [][NextXfer]_vars

(* One run of a PybricksHub while the device sends program output and      *)
(* status reports                                                          *)
InitIO == Init /\ cls = "PybricksHub" /\ hub_kind = "OTHER"

NextIO ==
    \/ HubRunOnce
    \/ HubCompileFail
    \/ HubCompiledShort
    \/ HubWriteDone
    \/ HubWriteFail
    \/ HubTimeout
    \/ HubAcked
    \/ HubNusNotify
    \/ HubStatusNotify
    \/ DeviceOutput

SpecIO == InitIO /\ [][NextIO]_vars

(* One run of a PybricksHub with wait = True: the transfer, then the       *)
(* interactive session while the device reports its status                 *)
InitSession ==
    /\ InitObject
    /\ cls = "PybricksHub"
    /\ hub_kind = "OTHER"
    /\ wait = TRUE
    /\ py_path = <<115, 47, 112>>
    /\ abi = 5
    /\ eol_set = TRUE

NextSession ==
    \/ HubRunOnce
    \/ HubCompileFail
    \/ HubCompiledShort
    \/ HubWriteDone
    \/ HubWriteFail
    \/ HubTimeout
    \/ HubAcked
    \/ HubNusNotify
    \/ HubStatusNotify
    \/ PipeConnected
    \/ PipeRead
    \/ PipeEOF
    \/ PipeWritten
    \/ PipeWriteFail
    \/ PipeCancelled
    \/ WaiterWoken
    \/ WaiterSettled
    \/ WaiterRewoken
    \/ WaiterCancelled
    \/ SessionDone
    \/ SessionFailed
    \/ RunCancel
    \/ SessionCancelled

SpecSession == InitSession /\ [][NextSession]_vars

(* Lines of the device reach an object of any of the three classes; a hub *)
(* object has been given a script before.                                  *)
InitLines ==
    /\ InitObject
    /\ hub_kind = "OTHER"
    /\ wait = FALSE
    /\ isatty = FALSE
    /\ cls = "CharacterGlue" \/ eol_set
    /\ cls = "PybricksHub" \/ py_path = <<115, 47, 112>>
    /\ abi = 5

NextLines ==
    \/ HubRunOnce
    \/ HubCompileFail
    \/ PUPRunOnce
    \/ PUPCompileFail
    \/ DeviceLines
    \/ GlueNotify
    \/ PUPNotify
    \/ HubLine

SpecLines == InitLines /\ [][NextLines]_vars

(* Runs of either class while the device uses its log protocol *)
InitLog ==
    /\ Init
    /\ hub_kind = "OTHER"

NextLog ==
    \/ HubRun
    \/ HubCompileFail
    \/ HubLine
    \/ PUPRunOnce
    \/ PUPCompileFail
    \/ PUPCompiledShort
    \/ PUPWriteDone
    \/ PUPWriteFail
    \/ PUPTimeout
    \/ PUPAcked
    \/ PUPNotify
    \/ DeviceLog

SpecLog == InitLog /\ [][NextLog]_vars

(* Runs of either class whose compile_file is given any ABI version or    *)
(* none                                                                    *)
InitCompile ==
    /\ InitObject
    /\ cls \in Classes
    /\ wait = FALSE
    /\ isatty = FALSE
    /\ py_path = <<115, 47, 112>>
    /\ eol_set = TRUE

SpecCompile == InitCompile /\ [][Next]_vars

(* Runs of PybricksPUPProtocol with either value of the wait argument *)
InitWait ==
    /\ InitObject
    /\ cls = "PybricksPUPProtocol"
    /\ hub_kind = "OTHER"
    /\ isatty = FALSE
    /\ py_path = <<115, 47, 112>>
    /\ abi = 5
    /\ eol_set = TRUE

NextWait ==
    \/ PUPRun
    \/ PUPCompileFail
    \/ PUPCompiledShort
    \/ PUPWriteDone
    \/ PUPWriteFail
    \/ PUPTimeout
    \/ PUPAcked
    \/ PUPNotify
    \/ PUPSlept
    \/ PUPPolled
    \/ ProgramEnds

SpecWait == InitWait /\ [][NextWait]_vars

(* The event loop runs every callback that is ready: a task that was       *)
(* cancelled takes its next step, and run resumes when the gathered tasks  *)
(* have their outcome.                                                     *)
SpecSessionFair ==
    /\ SpecSession
    /\ WF_vars(PipeCancelled)
    /\ WF_vars(WaiterCancelled)
    /\ WF_vars(SessionDone)
    /\ WF_vars(SessionFailed)
    /\ WF_vars(SessionCancelled)

----------------------------------------------------------------------------
(* Properties *)

IsPrefix(a, b) == Len(a) <= Len(b) /\ SubSeq(b, 1, Len(a)) = a

Count(x, q) == Cardinality({i \in 1..Len(q) : q[i] = x})

(* The program output on the terminal: the bytes the device sent as output *)
TermOut == SelectSeq(terminal, IsOutByte)

Failures == {"timeout", "checksum", "transport"}

(* C1: a block of either class returns without error only if, after the    *)
(* slot was armed for it, a byte equal to the XOR of all its bytes was     *)
(* delivered and taken as its checksum.                                    *)
C1_SuccessOnlyWhenAcked == okBlks \subseteq matchedBlks

C1_Witness ==
    /\ cls = "PybricksHub"
    /\ result = "ok"
    /\ Cardinality(okBlks) = 3
    /\ okBlks \subseteq matchedBlks

(* C2: when a byte that differs from the expected checksum was taken as    *)
(* the answer to a block, the send of that block fails with the checksum   *)
(* error; it does not end as an acknowledgment timeout with no             *)
(* acknowledgment signalled.                                               *)
C2_MismatchFailsTheSend ==
    ~(sendres = "timeout" /\ ~checksum_ready /\ blk \in badBlks)

(* C3: after a block send has failed (timeout, checksum mismatch or write  *)
(* error) the slot is disarmed: expected_checksum is -1 in PybricksHub,    *)
(* the state is not AWAITING_CHECKSUM in PybricksPUPProtocol.              *)
C3_FailureDisarms ==
    sendres \in Failures =>
        /\ cls = "PybricksHub" => expected_checksum = NoChecksum
        /\ cls = "PybricksPUPProtocol" => state # "AWAITING_CHECKSUM"

(* C4: the acknowledgment the device sent for an earlier block is never    *)
(* taken, as a match or as a mismatch, for the block a later send_block    *)
(* is waiting for.                                                         *)
C4_NoStaleAckTaken == cls = "PybricksHub" => staleBlks = {}

(* C5: run sends the 4-byte little-endian length and then the payload in   *)
(* order in ceil(L/100) blocks, all of 100 bytes but possibly the last;    *)
(* what reaches the device is these blocks, and a run that succeeds has    *)
(* had each of the 1 + ceil(L/100) blocks acknowledged.                    *)
NBlocks(L) == (L + ChunkSize - 1) \div ChunkSize

C5_BlocksOfARun ==
    LET L == Len(mpy)
        N == NBlocks(L)
    IN  /\ Len(sent) <= 1 + N
        /\ Len(sent) >= 1 =>
             /\ Len(sent[1]) = 4
             /\ \A j \in 1..4 : sent[1][j] \in 0..255
             /\ sent[1][1] + 256 * sent[1][2] + 65536 * sent[1][3]
                  + 16777216 * sent[1][4] = L
        /\ \A k \in 2..Len(sent) :
             /\ Len(sent[k]) = (IF k - 1 < N THEN ChunkSize ELSE L - (N - 1) * ChunkSize)
             /\ Len(sent[k]) >= 1 /\ Len(sent[k]) <= ChunkSize
             /\ \A j \in 1..Len(sent[k]) : sent[k][j] = mpy[(k - 2) * ChunkSize + j]
        /\ \A k \in 1..Len(sent) : k # blk => Received(wire, k) = sent[k]
        /\ IsPrefix(Received(wire, blk), data)
        /\ result = "ok" =>
             /\ Len(sent) = 1 + N
             /\ okBlks = 1..(1 + N)
             /\ okBlks \subseteq released
             /\ \A k \in 1..Len(sent) : Received(wire, k) = sent[k]

C5_Witness ==
    /\ result = "ok"
    /\ Len(mpy) = 250
    /\ Len(sent) = 4
    /\ Len(sent[1]) = 4 /\ Len(sent[2]) = 100 /\ Len(sent[3]) = 100 /\ Len(sent[4]) = 50
    /\ Cardinality(okBlks) = 4

C7_LoadingSuppression ==
    [][(nStatus' # nStatus /\ loading) =>
          /\ program_running' = program_running
          /\ user_program_stopped' = user_program_stopped
          /\ terminal' = terminal]_vars

C7_Witness ==
    /\ loading
    /\ suppressed = "running"
    /\ ~program_running
    /\ ~user_program_stopped

(* C8: when the transfer has ended and loading is false again,             *)
(* program_running is what the last status report received while loading   *)
(* said, with no further report from the hub.                              *)
C8_ReplayedWhenLoadingEnds ==
    (result = "ok" /\ ~loading /\ suppressed # "none")
        => (program_running <=> suppressed = "running")

(* C9: program output is never written to the terminal while loading, and  *)
(* the terminal shows the output bytes in the order they were received,    *)
(* none skipped.                                                           *)
C9_StdoutInOrder == ~wroteLoading /\ IsPrefix(TermOut, rx)

(* C10: once the transfer has ended and loading is false, every byte       *)
(* buffered during loading is on the terminal exactly once.                *)
C10_BufferFlushedOnce ==
    (result = "ok" /\ ~loading)
        => \A i \in 1..Len(rxLoading) : Count(rxLoading[i], terminal) = 1

(* C11: the program-stopped signal is edge-triggered: it goes from clear   *)
(* to set only in a status notification that is handled while not loading  *)
(* and that changes the stored program state from running to not running;  *)
(* a report that repeats "not running" does not set it.                    *)
C11_StoppedIsEdgeTriggered ==
    [][(~user_program_stopped /\ user_program_stopped')
         => (nStatus' # nStatus /\ ~loading /\ program_running /\ ~program_running')]_vars

InSession == pc \in {"gather", "cancelling"}

(* C12: once wait_for_program_end has completed (the stop signal was set   *)
(* and program_running was false after the settle delay), pipe_stdin is    *)
(* cancelled wherever it is suspended, the cancellation ends the task as   *)
(* a normal exit and never as a failure, and run returns.                  *)
C12_WatcherEndCancelsPump ==
    /\ [](waiter = "done" => pipe \notin PipeActive)
    /\ [](pipe_cancelled # "no" => pipe \in {"cancelling", "done"})
    /\ (waiter = "done" /\ pc = "gather" /\ pipe # "failed")
          ~> (pc = "idle" /\ result \in {"ok", "cancelled"})

C12_Witness ==
    /\ result = "ok" /\ waiter = "done" /\ pipe = "done"
    /\ pipe_cancelled = "read" /\ ~program_running

(* C13: when pipe_stdin reaches end of input it exits cleanly and leaves   *)
(* wait_for_program_end as it is; run does not return before               *)
(* wait_for_program_end has completed.                                     *)
C13_StdinEndKeepsWaiting ==
    /\ [][(pipe = "read" /\ pipe' = "done") => (waiter' = waiter /\ pc' = pc)]_vars
    /\ []((pipe = "done" /\ pipe_cancelled = "no" /\ waiter \in WaiterActive)
            => pc = "gather")
    /\ [](result = "ok" /\ wait => waiter = "done")

C13_Witness ==
    /\ result = "ok" /\ pipe = "done" /\ pipe_cancelled = "no"
    /\ nStdin = MaxStdin /\ waiter = "done"

(* C14: with a terminal on stdin, raw mode is set while the interactive    *)
(* tasks exist and run awaits them, and the saved settings are back in     *)
(* force whenever run is not in the interactive session, however it left.  *)
C14_RawModeScoped ==
    /\ InSession => tty = (IF isatty THEN raw_mode(OrigMode) ELSE OrigMode)
    /\ InSession => (pipe # "none" /\ waiter # "none")
    /\ ~InSession => tty = OrigMode

C14_Witness ==
    /\ isatty /\ result = "transport" /\ pipe = "failed"
    /\ pc = "idle" /\ tty = OrigMode

(* C15: when program_running is true after the settle delay, the watcher   *)
(* clears the signal and waits again; it completes only after a later      *)
(* status notification reporting "not running" has set the signal.         *)
C15_RearmAfterFlicker ==
    /\ [][(waiter = "sleep" /\ program_running /\ waiter' \notin {"sleep", "cancelling"})
            => (waiter' = "rewait" /\ ~user_program_stopped')]_vars
    /\ [][(waiter = "rewait" /\ ~user_program_stopped /\ user_program_stopped')
            => (nStatus' = nStatus + 1 /\ ~program_running')]_vars
    /\ [][(waiter = "rewait" /\ waiter' = "done") => user_program_stopped]_vars
    /\ [](waiter = "rewait" => result # "ok")

C15_Witness ==
    /\ waiter = "rewait" /\ pc = "gather" /\ program_running
    /\ ~user_program_stopped /\ nStatus = 2

RECURSIVE JoinNL(_)
(* the lines, each followed by a newline, as print writes them *)
JoinNL(lines) == IF lines = <<>> THEN <<>> ELSE Head(lines) \o <<10>> \o JoinNL(Tail(lines))

IsOpenLine(line) == IsPrefix(PB_OF \o <<32>>, line)
IsCloseLine(line) == line = PB_EOF
IsSentinelLine(line) == IsOpenLine(line) \/ IsCloseLine(line)
AllOrdinary(lines) == \A i \in 1..Len(lines) : lines[i] \in OutputLines

(* the path a log-open line names, for the class at hand *)
LogPath(line) ==
    IF cls = "PybricksHub"
    THEN os_path_join(script_dir.dir, Slice(line, 6, Len(line)))
    ELSE Slice(line, 6, Len(line))

(* C16: whatever the fragments the bytes arrive in, CharacterGlue with its *)
(* pass-through byte hook has handed over the lines, and keeps the         *)
(* residual buffer, that one call with all the bytes gives.                *)
C16_FragmentationInvariance ==
    (cls = "CharacterGlue" /\ eol_set)
        => /\ handed = SplitLines(stream, EOL).lines
           /\ char_buf = SplitLines(stream, EOL).rest

C16_Witness ==
    /\ cls = "CharacterGlue" /\ eol_set /\ nFeed = 4 /\ nusq = <<>>
    /\ stream = <<97, 13, 10, 97, 13, 10>>
    /\ handed = << <<97>>, <<97>> >> /\ char_buf = <<>>

(* C17: with a marker configured, the buffer holds no marker after a call  *)
(* of data_handler and every complete line received was handed to          *)
(* line_handler once, without marker, in order; with no marker no line is  *)
(* handed over and the bytes accumulate.                                   *)
C17_LineBufferInvariant ==
    (cls \in {"CharacterGlue", "PybricksPUPProtocol"})
        => IF eol_set
           THEN /\ Find(char_buf, EOL) < 0
                /\ handed = SplitLines(stream, EOL).lines
           ELSE /\ handed = <<>>
                /\ char_buf = stream

(* C18: a log-open line, N ordinary lines and the log-close line leave a   *)
(* closed file at the named path that holds the N lines, each with a       *)
(* newline; none of them is in the output history or on the terminal, and  *)
(* the lines after the close are.                                          *)
C18_LogRoundTrip ==
    (cls \in {"PybricksHub", "PybricksPUPProtocol"})
        => \A k \in 2..Len(handed) :
             ( /\ IsOpenLine(handed[1])
               /\ IsCloseLine(handed[k])
               /\ AllOrdinary(SubSeq(handed, 2, k - 1))
               /\ AllOrdinary(SubSeq(handed, k + 1, Len(handed))) )
             => /\ LogPath(handed[1]) \in DOMAIN files
                /\ files[LogPath(handed[1])] = JoinNL(SubSeq(handed, 2, k - 1))
                /\ ~log_file.open
                /\ output = SubSeq(handed, k + 1, Len(handed))
                /\ terminal = IF print_output THEN JoinNL(output) ELSE <<>>

(* C19: after a log-open line that arrives while a log is open, or a       *)
(* log-close line that arrives while none is, line_handler has raised and  *)
(* no log file is open.                                                    *)
C19_MisuseLeavesNoOpenLog ==
    (cls \in {"PybricksHub", "PybricksPUPProtocol"} /\ raised /\ handed # <<>>
        /\ IsSentinelLine(handed[Len(handed)]))
        => ~log_file.open

C21_NoLogLeftOpen ==
    /\ handles \subseteq (IF log_file.open THEN {log_file.name} ELSE {})
    /\ (pc = "idle" /\ result \in Failures) => handles = {}

(* C22: when compile_file has failed, run is over and in this run nothing  *)
(* was written to the channel, no block was handed to send, loading is not *)
(* set and no checksum is armed; and with an ABI version other than 5 the  *)
(* compiler is never called and no run gets past compile_file.             *)
C22_CompileFailsBeforeIO ==
    /\ result = "compile"
         => /\ pc = "idle" /\ wire = <<>> /\ sent = <<>> /\ blk = 0
            /\ cls = "PybricksHub" => (~loading /\ expected_checksum = NoChecksum)
    /\ abi # 5 => (~compiler_invoked /\ result \in {"none", "compile"}
                    /\ pc \in {"idle", "compile"})

C22_Witness ==
    /\ result = "compile" /\ abi = 6 /\ nRuns = 2 /\ ~compiler_invoked /\ pc = "idle"

----------------------------------------------------------------------------
(* C23: PybricksPUPProtocol.run with wait=True does not return while the   *)
(* program it has just transferred is still running on the hub, and with   *)
(* wait=False it returns as soon as the last block was acknowledged,       *)
(* without sleeping or polling.                                            *)
C23_WaitsForProgramEnd ==
    cls = "PybricksPUPProtocol" =>
        /\ (wait /\ pc = "idle" /\ result = "ok") => dev_program = "ended"
        /\ ~wait => pc \notin {"sleep", "poll"}

(* C24: a PybricksHub of kind BOOST writes a block as consecutive writes   *)
(* of at most 20 bytes, in order, whose concatenation is the block; every  *)
(* other kind writes the block in one write; the one checksum, over the    *)
(* whole block, is armed before the first write, and the acknowledgment   *)
(* is awaited once per block, after its last write.                        *)
WritesOf(w, b) == {i \in 1..Len(w) : w[i].blk = b}

C24_BoostRefragmentation ==
    cls = "PybricksHub" =>
        /\ \A i \in 1..Len(wire) :
             /\ hub_kind = "BOOST" => Len(wire[i].data) \in 1..BoostMTU
             /\ hub_kind # "BOOST" => wire[i].data = sent[wire[i].blk]
        /\ \A b \in 1..Len(sent) :
             /\ hub_kind # "BOOST" => Cardinality(WritesOf(wire, b)) <= 1
             /\ IsPrefix(Received(wire, b), sent[b])
             /\ (b < blk \/ pc = "wait" \/ result = "ok") =>
                  /\ Received(wire, b) = sent[b]
                  /\ Cardinality(WritesOf(wire, b)) =
                       (IF hub_kind = "BOOST"
                        THEN (Len(sent[b]) + BoostMTU - 1) \div BoostMTU ELSE 1)
        /\ pc \in {"write", "wait"} => issuedArmed
        /\ pc = "write" => expected_checksum \in {xor_bytes(data, 0), NoChecksum}
        /\ nDisarm <= blk
        /\ result = "ok" => nDisarm = blk

C24_Witness ==
    /\ cls = "PybricksHub"
    /\ hub_kind = "BOOST"
    /\ result = "ok"
    /\ Len(mpy) = 250
    /\ Len(wire) = 14
    /\ Cardinality(WritesOf(wire, 4)) = 3
    /\ Len(wire[14].data) = 10
    /\ nDisarm = 4

(* C25: a line that does not begin with a sentinel is no command: when it  *)
(* is handed to the line handler alone, no log is opened or closed and no  *)
(* error is raised, and the line goes to the open log or, with no log      *)
(* open, to the output history.                                            *)
C25_SentinelOnlyAtLineStart ==
    [][(cls \in {"PybricksHub", "PybricksPUPProtocol"}
          /\ Len(handed') = Len(handed) + 1
          /\ ~IsSentinelLine(handed'[Len(handed')]))
        => /\ log_file' = log_file
           /\ ~raised'
           /\ IF log_file.open
              THEN files' = [files EXCEPT ![log_file.name] =
                                @ \o handed'[Len(handed')] \o <<10>>]
              ELSE output' = Append(output, handed'[Len(handed')])]_vars

(* C26: taking the checksum consumes the acknowledgment byte only: every   *)
(* byte of program output that was delivered to nus_handler, also while a  *)
(* checksum was awaited, was buffered or written to the terminal, so that  *)
(* what the handler forwarded and what is still in flight are together     *)
(* what the device has sent.                                               *)
RECURSIVE QueuedOutput(_)
QueuedOutput(q) ==
    IF q = <<>> THEN <<>>
    ELSE (IF Head(q).run = 0 THEN Head(q).data ELSE <<>>) \o QueuedOutput(Tail(q))

C26_OnlyTheAckIsConsumed ==
    cls = "PybricksHub" =>
        rx \o QueuedOutput(nusq) = [k \in 1..nOut |-> OutByte(k)]

(* C27: PybricksHub.run with wait=True returns normally, and               *)
(* wait_for_program_end completes, only after the device has reported in   *)
(* this run that the program was running.                                  *)
C27_ReturnsAfterProgramRan ==
    (cls = "PybricksHub" /\ wait)
        => /\ (pc = "idle" /\ result = "ok") => seen_running
           /\ waiter = "done" => seen_running

(* C28: when PybricksHub.run has exited, with its result or with the error *)
(* of pipe_stdin, neither the pipe_stdin task nor the wait_for_program_end *)
(* task is still pending.                                                  *)
C28_NoTaskOutlivesTheSession ==
    (cls = "PybricksHub" /\ pc = "idle" /\ result # "none")
        => (pipe \notin PipeActive /\ waiter \notin WaiterActive)
====
